---- MODULE Spec2Model ----
(***************************************************************************)
(* Model of pandas/indexes/frozen.py: FrozenList (a list subclass whose    *)
(* mutators are disabled), FrozenNDArray (an ndarray subclass whose        *)
(* mutators are disabled) and _ensure_frozen.                              *)
(*                                                                         *)
(* A Python value is a record [type, items]; an object of the heap is an   *)
(* id with a content.  The FrozenList part runs a caller that holds one    *)
(* FrozenList `a` and the latest object `r` a call returned, and calls the *)
(* methods of either with every operand of a small universe.               *)
(***************************************************************************)
EXTENDS Integers, Sequences, FiniteSets, TLC

VARIABLES
  mode,    \* what the caller exercises: "FrozenList", "FrozenNDArray" or "_ensure_frozen"
  a,       \* the items of the FrozenList the caller constructed (object id 1)
  r,       \* [id, cls, items]: the latest new object a call returned (id 0: none yet)
  call,    \* the last FrozenList call: [op, self, arg, pre], pre the items of self before it
  ret,     \* what the last FrozenList call returned or raised: [kind, id, val, items]
  warned,  \* the warnings the last FrozenList call emitted
  bufs,    \* the numpy data buffers, by the slot whose array allocated them
  arrs,    \* the array objects the caller holds, by slot: [cls, buf, dtype, data]
  acall,   \* the last array call: [op, self, arg, pre], pre what self read before it
  aret     \* what the last array call returned or raised: [kind, h]

vars == <<mode, a, r, call, ret, warned, bufs, arrs, acall, aret>>
listVars == <<a, r, call, ret, warned>>
arrVars == <<bufs, arrs, acall, aret>>

-----------------------------------------------------------------------------
(* Bounds and universes *)

MaxLen == 2          \* longest list built or passed
MaxRep == 2          \* largest repeat count
HashBits == 12       \* width the tuple hash is computed in

HashMod == 2 ^ HashBits

Range(s) == {s[i] : i \in DOMAIN s}

\* What the caller passes as the other operand of a call: the items of a list or
\* of a tuple, and of a set (which iterates in ascending order of its small ints).
InitItems == {<<>>, <<1>>, <<1, 1>>, <<1, 2>>, <<2, 1>>}
OperandItems == {<<>>, <<1>>, <<2, 1>>}
SetItems == {<<2>>, <<1, 2>>}

PyVal(t, items) == [type |-> t, items |-> items]

\* Optional ints of a slice: <<>> is None, <<v>> is v.
Slice(start, stop, step) == [start |-> start, stop |-> stop, step |-> step]
NoSlice == Slice(<<>>, <<>>, <<>>)
\* [:], [1:], [:1], [-1:], [:-1], [1:3], [3:], [-3:1], [1:0], [::2], [1::2],
\* [::-1], [-1:0:-1], [3:-3:-1], [0::-1]
Slices ==
  {NoSlice, Slice(<<1>>, <<>>, <<>>), Slice(<<>>, <<1>>, <<>>), Slice(<<-1>>, <<>>, <<>>),
   Slice(<<>>, <<-1>>, <<>>), Slice(<<1>>, <<3>>, <<>>), Slice(<<3>>, <<>>, <<>>),
   Slice(<<-3>>, <<1>>, <<>>), Slice(<<1>>, <<0>>, <<>>), Slice(<<>>, <<>>, <<2>>),
   Slice(<<1>>, <<>>, <<2>>), Slice(<<>>, <<>>, <<-1>>), Slice(<<-1>>, <<0>>, <<-1>>),
   Slice(<<3>>, <<-3>>, <<-1>>), Slice(<<0>>, <<>>, <<-1>>)}
Indexes == {-3, -1, 0, 1}
SliceEnds == {-1, 0, 1, 3}

-----------------------------------------------------------------------------
(* Results of a method, before the caller binds them *)

RList(items) == [kind |-> "list", items |-> items, val |-> 0, warn |-> {}]
RSelf(items) == [kind |-> "self", items |-> items, val |-> 0, warn |-> {}]
RErr(e) == [kind |-> e, items |-> <<>>, val |-> 0, warn |-> {}]
RVal(k, v) == [kind |-> k, items |-> <<>>, val |-> v, warn |-> {}]
RStr(items) == [kind |-> "str", items |-> items, val |-> 0, warn |-> {}]

\* warnings.warn(msg, category): the category joins what the call emitted
warnings_warn(res, category) == [res EXCEPT !.warn = @ \cup {category}]

IsList(v) == v.type \in {"list", "FrozenList"}
Iterable(v) == v.type # "int"

\* list(other): a new plain list of other's items
list(other) == PyVal("list", other.items)

\* list.__add__(self, other): concatenation, defined for a list operand only
list__add__(self, other) ==
  IF IsList(other) THEN RList(self \o other.items) ELSE RErr("TypeError")

\* list.__iadd__(self, other): extends self in place with any iterable, returns self
list__iadd__(self, other) ==
  IF Iterable(other) THEN RSelf(self \o other.items) ELSE RErr("TypeError")

\* list.__eq__(self, other): elementwise for a list operand, else NotImplemented
list__eq__(self, other) ==
  IF IsList(other)
  THEN RVal("bool", IF /\ Len(self) = Len(other.items)
                       /\ \A i \in DOMAIN self : self[i] = other.items[i]
                    THEN 1 ELSE 0)
  ELSE RVal("NotImplemented", 0)

\* list.__mul__(self, n): n copies of self in order, none for n <= 0
list__mul__(self, n) ==
  IF n <= 0 \/ Len(self) = 0 THEN <<>>
  ELSE [k \in 1..(n * Len(self)) |-> self[((k - 1) % Len(self)) + 1]]

\* self.__class__(x): x's items copied into a new FrozenList; an error x raised
\* while it was computed propagates instead.
Construct(res) ==
  IF res.kind \in {"list", "FrozenList"} THEN [res EXCEPT !.kind = "FrozenList"] ELSE res

-----------------------------------------------------------------------------
(* FrozenList *)

\* A faulty union that adds only the items self lacks, as a set union would.
union_as_set(self, other) ==
  LET o == IF other.type = "tuple" THEN list(other) ELSE other
  IN IF IsList(o)
     THEN Construct(RList(self \o SelectSeq(o.items, LAMBDA x : x \notin Range(self))))
     ELSE RErr("TypeError")

union(self, other) ==
  LET o == IF other.type = "tuple" THEN list(other) ELSE other
  IN Construct(list__add__(self, o))

__add__(self, other) == warnings_warn(union(self, other), "FutureWarning")

__iadd__(self, other) ==
  LET o == IF other.type = "tuple" THEN list(other) ELSE other
  IN warnings_warn(list__iadd__(self, o), "FutureWarning")

\* other + list(self): a FrozenList on the left concatenates through its own __add__
__radd__(self, other) ==
  LET o == IF other.type = "tuple" THEN list(other) ELSE other
  IN IF o.type = "FrozenList" THEN Construct(__add__(o.items, PyVal("list", self)))
     ELSE IF o.type = "list" THEN Construct(list__add__(o.items, PyVal("list", self)))
     ELSE RErr("TypeError")

__eq__(self, other) ==
  LET o == IF other.type \in {"tuple", "FrozenList"} THEN list(other) ELSE other
  IN list__eq__(self, o)

__mul__(self, n) == Construct(RList(list__mul__(self, n)))

\* A faulty difference computed on sets: it keeps one occurrence of each item.
difference_of_sets(self, other) ==
  IF ~Iterable(other) THEN RErr("TypeError")
  ELSE LET keep == Range(self) \ Range(other.items)
       IN Construct(RList(SelectSeq(<<1, 2, 3>>, LAMBDA x : x \in keep)))

difference(self, other) ==
  IF ~Iterable(other) THEN RErr("TypeError")
  ELSE LET members == Range(other.items)
           temp == SelectSeq(self, LAMBDA x : x \notin members)
       IN Construct(RList(temp))

\* A faulty _disabled that performs the pop: it drops the last item of self.
_disabled_pops(self) == RSelf(SubSeq(self, 1, Len(self) - 1))

_disabled(self) == RErr("TypeError")

\* PySlice_Unpack and PySlice_AdjustIndices: the first index, the step and the
\* number of items of a slice of a list of length len (indices from 0).
SliceAdjust(v, len, step) ==
  IF v < 0
  THEN IF v + len < 0 THEN (IF step < 0 THEN -1 ELSE 0) ELSE v + len
  ELSE IF v >= len THEN (IF step < 0 THEN len - 1 ELSE len) ELSE v

SliceIndices(sl, len) ==
  LET step == IF sl.step = <<>> THEN 1 ELSE sl.step[1]
      start == IF sl.start = <<>> THEN (IF step < 0 THEN len - 1 ELSE 0)
               ELSE SliceAdjust(sl.start[1], len, step)
      stop == IF sl.stop = <<>> THEN (IF step < 0 THEN -1 ELSE len)
              ELSE SliceAdjust(sl.stop[1], len, step)
      n == IF step < 0
           THEN IF stop < start THEN ((start - stop - 1) \div (-step)) + 1 ELSE 0
           ELSE IF start < stop THEN ((stop - start - 1) \div step) + 1 ELSE 0
  IN [start |-> start, step |-> step, n |-> n]

\* A key of __getitem__: [isSlice, sl, i], a slice sl or an int i.
KeySlice(sl) == [isSlice |-> TRUE, sl |-> sl, i |-> 0]
KeyInt(i) == [isSlice |-> FALSE, sl |-> NoSlice, i |-> i]

\* list.__getitem__(self, key): for a slice a plain list of the items it selects,
\* for an int the item at that index, counted from the end when negative.
list__getitem__(self, key) ==
  IF key.isSlice
  THEN LET ix == SliceIndices(key.sl, Len(self))
       IN RList(IF ix.n = 0 THEN <<>>
                ELSE [k \in 1..ix.n |-> self[ix.start + (k - 1) * ix.step + 1]])
  ELSE LET j == IF key.i < 0 THEN key.i + Len(self) ELSE key.i
       IN IF j < 0 \/ j >= Len(self) THEN RErr("IndexError")
          ELSE RVal("item", self[j + 1])

\* list.__getslice__(self, i, j): a plain list of self[i:j], both ends clamped
list__getslice__(self, i, j) ==
  LET lo == IF i < 0 THEN 0 ELSE IF i > Len(self) THEN Len(self) ELSE i
      hi == IF j < lo THEN lo ELSE IF j > Len(self) THEN Len(self) ELSE j
  IN RList(SubSeq(self, lo + 1, hi))

__getslice__(self, i, j) == Construct(list__getslice__(self, i, j))

\* A faulty __getitem__ that returns what list.__getitem__ gave: a plain list.
__getitem__unwrapped(self, n) == list__getitem__(self, n)

__getitem__(self, n) ==
  IF n.isSlice THEN Construct(list__getitem__(self, n)) ELSE list__getitem__(self, n)

\* x ^ y on naturals
RECURSIVE Xor(_, _)
Xor(x, y) ==
  IF x = 0 THEN y
  ELSE IF y = 0 THEN x
  ELSE (((x % 2) + (y % 2)) % 2) + (2 * Xor(x \div 2, y \div 2))

\* hash(tuple): CPython's tuplehash over the items in order, an int hashing to
\* itself, computed modulo 2^HashBits.
RECURSIVE TupleHashFrom(_, _, _, _)
TupleHashFrom(t, i, x, mult) ==
  IF i > Len(t) THEN (x + 97531) % HashMod
  ELSE TupleHashFrom(t, i + 1, (Xor(x, (t[i] % HashMod)) * mult) % HashMod,
                     (mult + 82520 + 2 * (Len(t) - i)) % HashMod)

tuple__hash__(t) == TupleHashFrom(t, 1, 3430008 % HashMod, 1000003 % HashMod)

__hash__(self) == RVal("int", tuple__hash__(self))

\* "%s(%s)" % (class name, str(self)): the text names the class and lists the items
__repr__(self) == RStr(self)

-----------------------------------------------------------------------------
(* The caller of FrozenList *)

Items(id) == IF id = 1 THEN a ELSE r.items
\* The FrozenLists the caller holds.
Live == IF r.cls = "FrozenList" THEN {1, r.id} ELSE {1}
FreshId == IF r.id = 2 THEN 3 ELSE 2

Operands ==
  {PyVal("list", s) : s \in OperandItems} \cup {PyVal("tuple", s) : s \in OperandItems}
    \cup {PyVal("set", s) : s \in SetItems} \cup {PyVal("int", <<>>)}
    \cup {PyVal("FrozenList", Items(i)) : i \in Live}

Keys == {KeySlice(sl) : sl \in Slices} \cup {KeyInt(i) : i \in Indexes}

Mutators == {"__setitem__", "__setslice__", "__delitem__", "__delslice__",
             "pop", "append", "extend", "remove", "sort", "insert"}

\* The call returns res: a new object becomes object r, a returned self keeps
\* its identity with the items the call left in it, anything else leaves the heap.
Bind(op, self, arg, res) ==
  /\ mode = "FrozenList"
  /\ Len(res.items) <= MaxLen
  /\ call' = [op |-> op, self |-> self, arg |-> arg, pre |-> Items(self)]
  /\ warned' = res.warn
  /\ CASE res.kind \in {"FrozenList", "list"} ->
             /\ a' = a
             /\ r' = [id |-> FreshId, cls |-> res.kind, items |-> res.items]
             /\ ret' = [kind |-> res.kind, id |-> FreshId, val |-> 0, items |-> <<>>]
       [] res.kind = "self" ->
             /\ IF self = 1 THEN a' = res.items /\ r' = r
                ELSE a' = a /\ r' = [r EXCEPT !.items = res.items]
             /\ ret' = [kind |-> "FrozenList", id |-> self, val |-> 0, items |-> <<>>]
       [] OTHER ->
             /\ a' = a /\ r' = r
             /\ ret' = [kind |-> res.kind, id |-> 0, val |-> res.val, items |-> res.items]
  /\ UNCHANGED <<mode, arrVars>>

\* The arguments of a call, as the log keeps them: an operand, ints n and j, a slice.
NoOperand == PyVal("None", <<>>)
Arg(o, n, j, sl) == [other |-> o, n |-> n, j |-> j, sl |-> sl]
NoArg == Arg(NoOperand, 0, 0, NoSlice)
ArgOther(o) == Arg(o, 0, 0, NoSlice)
ArgInt(n) == Arg(PyVal("int", <<>>), n, 0, NoSlice)
ArgInts(i, j) == Arg(PyVal("int", <<>>), i, j, NoSlice)
ArgSlice(sl) == Arg(PyVal("slice", <<>>), 0, 0, sl)

Union(s, o) == Bind("union", s, ArgOther(o), union(Items(s), o))
Add(s, o) == Bind("__add__", s, ArgOther(o), __add__(Items(s), o))
IAdd(s, o) == Bind("__iadd__", s, ArgOther(o), __iadd__(Items(s), o))
RAdd(s, o) == Bind("__radd__", s, ArgOther(o), __radd__(Items(s), o))
Eq(s, o) == Bind("__eq__", s, ArgOther(o), __eq__(Items(s), o))
Difference(s, o) == Bind("difference", s, ArgOther(o), difference(Items(s), o))
Mul(s, n) == Bind("__mul__", s, ArgInt(n), __mul__(Items(s), n))
IMul(s, n) == Bind("__imul__", s, ArgInt(n), __mul__(Items(s), n))
GetSlice(s, i, j) == Bind("__getslice__", s, ArgInts(i, j), __getslice__(Items(s), i, j))
GetItem(s, key) ==
  Bind("__getitem__", s, IF key.isSlice THEN ArgSlice(key.sl) ELSE ArgInt(key.i),
       __getitem__(Items(s), key))
Hash(s) == Bind("__hash__", s, NoArg, __hash__(Items(s)))
Repr(s) == Bind("__repr__", s, NoArg, __repr__(Items(s)))
\* Every name of Mutators is bound to the one function _disabled, which is what runs.
Mutate(s, m) == m \in Mutators /\ Bind("_disabled", s, NoArg, _disabled(Items(s)))

InitArrIdle ==
  /\ arrs = [h \in {"src", "f", "w", "m", "m2"} |->
               [cls |-> "none", buf |-> "none", dtype |-> "none", data |-> <<>>]]
  /\ bufs = [h \in {"src", "f", "w", "m", "m2"} |-> <<>>]
  /\ acall = [op |-> "none", self |-> "none", pre |-> <<>>]
  /\ aret = [kind |-> "none", h |-> "none"]

InitList ==
  /\ mode = "FrozenList"
  /\ a \in InitItems
  /\ r = [id |-> 0, cls |-> "none", items |-> <<>>]
  /\ call = [op |-> "__init__", self |-> 1, arg |-> ArgOther(PyVal("list", a)), pre |-> a]
  /\ ret = [kind |-> "FrozenList", id |-> 1, val |-> 0, items |-> <<>>]
  /\ warned = {}
  /\ InitArrIdle

NextList ==
  \/ \E s \in Live, o \in Operands : Union(s, o)
  \/ \E s \in Live, o \in Operands : Add(s, o)
  \/ \E s \in Live, o \in Operands : IAdd(s, o)
  \/ \E s \in Live, o \in Operands : RAdd(s, o)
  \/ \E s \in Live, o \in Operands : Eq(s, o)
  \/ \E s \in Live, o \in Operands : Difference(s, o)
  \/ \E s \in Live, n \in -1..MaxRep : Mul(s, n)
  \/ \E s \in Live, n \in -1..MaxRep : IMul(s, n)
  \/ \E s \in Live, i \in SliceEnds, j \in SliceEnds : GetSlice(s, i, j)
  \/ \E s \in Live, key \in Keys : GetItem(s, key)
  \/ \E s \in Live : Hash(s)
  \/ \E s \in Live : Repr(s)
  \/ \E s \in Live, m \in Mutators : Mutate(s, m)

SpecList == InitList /\ [][NextList]_vars

-----------------------------------------------------------------------------
(* numpy arrays: an array object is [cls, buf, dtype, data]: it reads the buffer   *)
(* buf, and data keeps the items it was built from.                               *)
(* The caller holds an ordinary array src, the FrozenNDArray f built first, a     *)
(* second FrozenNDArray w derived from f, and the arrays m and m2 that values()   *)
(* returned; it writes only to the arrays values() returned.                      *)

Slots == {"src", "f", "w", "m", "m2"}
NoArr == [cls |-> "none", buf |-> "none", dtype |-> "none", data |-> <<>>]

SrcArrays == {[dtype |-> "int64", items |-> <<1>>],
              [dtype |-> "int64", items |-> <<1, 300>>],
              [dtype |-> "int8", items |-> <<1, 2>>]}
ArrData == {<<1>>, <<1, 300>>}
CoerceData == {<<0, 1, 2>>, <<300>>, <<1, 40000>>}
DTypeArgs == {"None", "int8", "int64"}
CopyArgs == {"None", "True", "False"}
WriteVals == {7}
ArrMutators == {"__setitem__", "__setslice__", "__delitem__", "__delslice__",
                "put", "itemset", "fill"}

DataList(items) == [kind |-> "list", items |-> items, h |-> "none"]
DataArr(h) == [kind |-> "array", items |-> <<>>, h |-> h]

\* The bits of an integer dtype; int64 holds every integer of the model.
Bits(dt) == IF dt = "int8" THEN 8 ELSE IF dt = "int16" THEN 16 ELSE 64
Representable(dt, x) ==
  dt = "int64" \/ (x >= -(2 ^ (Bits(dt) - 1)) /\ x <= 2 ^ (Bits(dt) - 1) - 1)
\* numpy's conversion of an integer to dt: it wraps modulo 2^bits.
Cast(dt, x) ==
  IF dt = "int64" THEN x
  ELSE ((x + 2 ^ (Bits(dt) - 1)) % (2 ^ Bits(dt))) - 2 ^ (Bits(dt) - 1)
CastAll(dt, items) == [i \in DOMAIN items |-> Cast(dt, items[i])]

Contents(H, h) == H.bufs[H.arrs[h].buf]
DataItems(H, data) == IF data.kind = "list" THEN data.items ELSE Contents(H, data.h)
IsFrozenArr(H, data) == data.kind = "array" /\ H.arrs[data.h].cls = "FrozenNDArray"
Ok(H) == [arrs |-> H.arrs, bufs |-> H.bufs, err |-> "none"]
Raise(H, e) == [arrs |-> H.arrs, bufs |-> H.bufs, err |-> e]

\* np.array(data, dtype=dtype, copy=copy): [dtype, items, buf, data], buf "new" for
\* fresh storage, else the buffer of data that the result shares.
np_array(H, data, dtype, copy) ==
  IF data.kind = "list"
  THEN LET dt == IF dtype = "None" THEN "int64" ELSE dtype
       IN [dtype |-> dt, items |-> CastAll(dt, data.items), buf |-> "new",
           data |-> data.items]
  ELSE LET dt == IF dtype = "None" THEN H.arrs[data.h].dtype ELSE dtype
       IN IF copy \/ dt # H.arrs[data.h].dtype
          THEN [dtype |-> dt, items |-> CastAll(dt, Contents(H, data.h)), buf |-> "new",
                data |-> Contents(H, data.h)]
          ELSE [dtype |-> dt, items |-> Contents(H, data.h), buf |-> H.arrs[data.h].buf,
                data |-> Contents(H, data.h)]

\* x.view(cls), bound to slot: a new array object of class cls on x's storage.
View(H, slot, x, cls) ==
  IF x.buf = "new"
  THEN [arrs |-> [H.arrs EXCEPT ![slot] = [cls |-> cls, buf |-> slot, dtype |-> x.dtype,
                                            data |-> x.data]],
        bufs |-> [H.bufs EXCEPT ![slot] = x.items],
        err |-> "none"]
  ELSE [arrs |-> [H.arrs EXCEPT ![slot] = [cls |-> cls, buf |-> x.buf, dtype |-> x.dtype,
                                            data |-> x.data]],
        bufs |-> H.bufs,
        err |-> "none"]

\* x.copy(): x on fresh storage
Copy(x) == [x EXCEPT !.buf = "new"]

AsArray(H, self) ==
  [dtype |-> H.arrs[self].dtype, items |-> Contents(H, self), buf |-> H.arrs[self].buf,
   data |-> H.arrs[self].data]

-----------------------------------------------------------------------------
(* FrozenNDArray and _ensure_frozen *)

__new__(H, slot, data, dtype, copy) ==
  LET cp == IF copy = "None" THEN ~IsFrozenArr(H, data) ELSE copy = "True"
  IN View(H, slot, np_array(H, data, dtype, cp), "FrozenNDArray")

\* A faulty _disabled that performs the fill: it writes 7 over self's storage.
FrozenNDArray_disabled_fills(H, self) ==
  Ok([arrs |-> H.arrs,
      bufs |-> [H.bufs EXCEPT ![H.arrs[self].buf] = [i \in DOMAIN @ |-> 7]]])

FrozenNDArray_disabled(H, self) == Raise(H, "TypeError")

_shallow_copy(H, slot, self) == View(H, slot, AsArray(H, self), H.arrs[self].cls)

\* A faulty values that returns the ordinary view without copying it.
values_uncopied(H, slot, self) == View(H, slot, AsArray(H, self), "ndarray")

values(H, slot, self) == View(H, slot, Copy(AsArray(H, self)), "ndarray")

\* ndarray.__setitem__(i, v) of an ordinary array: writes its storage
ndarray__setitem__(H, self, i, v) ==
  Ok([arrs |-> H.arrs,
      bufs |-> [H.bufs EXCEPT ![H.arrs[self].buf][i] = Cast(H.arrs[self].dtype, v)]])

\* The smallest signed integer dtype that holds every position of ncat categories
\* and the sentinel -1.
MinimalDtype(ncat) ==
  IF Representable("int8", ncat - 1) THEN "int8"
  ELSE IF Representable("int16", ncat - 1) THEN "int16" ELSE "int64"

\* _coerce_indexer_dtype(array_like, categories): array_like as an array of the
\* minimal dtype, sharing storage when it already has that dtype; a value the
\* dtype cannot hold is a NarrowingOverflowError.
_coerce_indexer_dtype(H, data, ncat) ==
  LET dt == MinimalDtype(ncat)
      items == DataItems(H, data)
  IN IF \E i \in DOMAIN items : ~Representable(dt, items[i])
     THEN [err |-> "NarrowingOverflowError", dtype |-> dt, items |-> <<>>, buf |-> "new"]
     ELSE [err |-> "none", dtype |-> dt, items |-> items,
           buf |-> IF data.kind = "array" /\ H.arrs[data.h].dtype = dt
                   THEN H.arrs[data.h].buf ELSE "new"]

\* A faulty _ensure_frozen that converts to the minimal dtype whatever the values.
_ensure_frozen_wrapping(H, slot, data, ncat, copy) ==
  LET dt == MinimalDtype(ncat)
  IN View(H, slot, [dtype |-> dt, items |-> CastAll(dt, DataItems(H, data)),
                    buf |-> "new", data |-> DataItems(H, data)], "FrozenNDArray")

_ensure_frozen(H, slot, data, ncat, copy) ==
  LET c == _coerce_indexer_dtype(H, data, ncat)
      x == [dtype |-> c.dtype, items |-> c.items, buf |-> c.buf,
            data |-> DataItems(H, data)]
  IN IF c.err # "none" THEN Raise(H, c.err)
     ELSE View(H, slot, IF copy THEN Copy(x) ELSE x, "FrozenNDArray")

-----------------------------------------------------------------------------
(* The caller of FrozenNDArray *)

Heap == [arrs |-> arrs, bufs |-> bufs]
LiveArr == {h \in Slots : arrs[h].cls # "none"}
Frozen == {h \in Slots : arrs[h].cls = "FrozenNDArray"}
Datas == {DataList(d) : d \in ArrData} \cup {DataArr(h) : h \in LiveArr \ {"m", "m2"}}
CoerceDatas == {DataList(d) : d \in CoerceData} \cup {DataArr(h) : h \in LiveArr}

NoArrArg == [data |-> <<>>, dtype |-> "None", copy |-> "None", ncat |-> 0, i |-> 0, v |-> 0]

\* The call ends as out: the heap it left, and the new array of slot, or the error.
BindArr(m, op, self, slot, arg, out) ==
  /\ mode = m
  /\ arrs' = out.arrs
  /\ bufs' = out.bufs
  /\ acall' = [op |-> op, self |-> self, arg |-> arg,
               pre |-> IF self \in LiveArr THEN Contents(Heap, self) ELSE <<>>]
  /\ aret' = IF out.err # "none" THEN [kind |-> out.err, h |-> "none"]
             ELSE IF slot = "none" THEN [kind |-> "None", h |-> "none"]
             ELSE [kind |-> out.arrs[slot].cls, h |-> slot]
  /\ UNCHANGED <<mode, listVars>>

\* FrozenNDArray(data, dtype, copy): the first one is f, one built from f is w.
New(data, dtype, copy) ==
  LET slot == IF data.kind = "array" /\ data.h # "src" THEN "w" ELSE "f"
  IN /\ arrs[slot].cls = "none"
     /\ BindArr("FrozenNDArray", "__new__", "none", slot,
                [NoArrArg EXCEPT !.data = DataItems(Heap, data), !.dtype = dtype, !.copy = copy],
                __new__(Heap, slot, data, dtype, copy))

ShallowCopy(self) ==
  /\ arrs["w"].cls = "none"
  /\ BindArr("FrozenNDArray", "_shallow_copy", self, "w", NoArrArg,
             _shallow_copy(Heap, "w", self))

Values(self) ==
  LET slot == IF arrs["m"].cls = "none" THEN "m" ELSE "m2"
  IN /\ arrs[slot].cls = "none"
     /\ BindArr("FrozenNDArray", "values", self, slot, NoArrArg, values(Heap, slot, self))

Write(self, i, v) ==
  /\ arrs[self].cls = "ndarray"
  /\ i \in DOMAIN Contents(Heap, self)
  /\ BindArr("FrozenNDArray", "ndarray.__setitem__", self, "none",
             [NoArrArg EXCEPT !.i = i, !.v = v], ndarray__setitem__(Heap, self, i, v))

\* Every name of ArrMutators is bound to the one function _disabled.
MutateArr(self, m) ==
  /\ m \in ArrMutators
  /\ BindArr("FrozenNDArray", "_disabled", self, "none", NoArrArg,
             FrozenNDArray_disabled(Heap, self))

\* _ensure_frozen(array_like, categories, copy): the caller keeps the latest as f.
EnsureFrozen(data, ncat, copy) ==
  BindArr("_ensure_frozen", "_ensure_frozen", "none", "f",
          [NoArrArg EXCEPT !.data = DataItems(Heap, data), !.ncat = ncat,
                           !.copy = IF copy THEN "True" ELSE "False"],
          _ensure_frozen(Heap, "f", data, ncat, copy))

InitListIdle ==
  /\ a = <<>>
  /\ r = [id |-> 0, cls |-> "none", items |-> <<>>]
  /\ call = [op |-> "none", self |-> 1, arg |-> NoArg, pre |-> <<>>]
  /\ ret = [kind |-> "none", id |-> 0, val |-> 0, items |-> <<>>]
  /\ warned = {}

InitHeap ==
  /\ \E x \in SrcArrays :
       /\ arrs = [h \in Slots |->
                    IF h = "src"
                    THEN [cls |-> "ndarray", buf |-> "src", dtype |-> x.dtype,
                          data |-> x.items]
                    ELSE NoArr]
       /\ bufs = [h \in Slots |-> IF h = "src" THEN x.items ELSE <<>>]
  /\ acall = [op |-> "none", self |-> "none", arg |-> NoArrArg, pre |-> <<>>]
  /\ aret = [kind |-> "none", h |-> "none"]
  /\ InitListIdle

InitArr == mode = "FrozenNDArray" /\ InitHeap
InitCoerce == mode = "_ensure_frozen" /\ InitHeap

NextArr ==
  \/ \E d \in Datas, dt \in DTypeArgs, c \in CopyArgs : New(d, dt, c)
  \/ \E h \in Frozen : ShallowCopy(h)
  \/ \E h \in Frozen : Values(h)
  \/ \E h \in {"m", "m2"}, i \in 1..2, v \in WriteVals : Write(h, i, v)
  \/ \E h \in Frozen, m \in ArrMutators : MutateArr(h, m)

Categories == {2, 3, 200}

NextCoerce ==
  \E d \in CoerceDatas, n \in Categories, c \in BOOLEAN : EnsureFrozen(d, n, c)

SpecArr == InitArr /\ [][NextArr]_vars
SpecCoerce == InitCoerce /\ [][NextCoerce]_vars
Spec == (InitList \/ InitArr) /\ [][NextList \/ NextArr]_vars

-----------------------------------------------------------------------------
(* Properties of FrozenList *)

\* The object id is one the caller still holds, so its items can be read.
Held(id) == id = 1 \/ (id = r.id /\ r.cls = "FrozenList")
\* The last call left self with the items it had before the call.
SelfUntouched == Held(call.self) => Items(call.self) = call.pre
\* The last call returned a FrozenList that is a new object, not self.
ReturnedNewFrozen ==
  /\ ret.kind = "FrozenList"
  /\ ret.id = r.id /\ r.cls = "FrozenList"
  /\ ret.id # call.self /\ ret.id # 1
\* res holds the items of x followed by the items of y.
IsConcat(res, x, y) ==
  /\ Len(res) = Len(x) + Len(y)
  /\ \A i \in DOMAIN x : res[i] = x[i]
  /\ \A j \in DOMAIN y : res[Len(x) + j] = y[j]
\* res holds x's items at the positions keep, in ascending order of position.
IsSelection(res, x, keep) ==
  /\ Len(res) = Cardinality(keep)
  /\ \A i \in keep : res[Cardinality({j \in keep : j <= i})] = x[i]

\* C4: union with a list, a tuple or a FrozenList returns a new FrozenList that
\* holds self's items followed by other's items in order, duplicates retained;
\* union with an empty operand holds self's items; self keeps its items.
UnionConcatenates ==
  (call.op = "union" /\ call.arg.other.type \in {"list", "tuple", "FrozenList"}) =>
    /\ ReturnedNewFrozen
    /\ IsConcat(r.items, call.pre, call.arg.other.items)
    /\ (call.arg.other.items = <<>> => r.items = call.pre)
    /\ SelfUntouched

\* a = FrozenList([1]); a.union((1,)) returned FrozenList([1, 1]) and a is [1].
UnionAppended ==
  /\ call.op = "union" /\ call.self = 1 /\ call.pre = <<1>>
  /\ call.arg.other = PyVal("tuple", <<1>>)
  /\ r.items = <<1, 1>> /\ a = <<1>>

\* C5: difference with an iterable returns a new FrozenList that holds exactly
\* the items of self that are not members of other, every occurrence kept, in
\* their order in self; the difference of a list with itself is empty; self
\* keeps its items.
DifferenceKeepsNonMembers ==
  (call.op = "difference" /\ Iterable(call.arg.other)) =>
    /\ ReturnedNewFrozen
    /\ IsSelection(r.items, call.pre,
                   {i \in DOMAIN call.pre :
                      \A j \in DOMAIN call.arg.other.items :
                        call.arg.other.items[j] # call.pre[i]})
    /\ (call.arg.other.items = call.pre => r.items = <<>>)
    /\ SelfUntouched

\* a = FrozenList([1, 1]); a.difference({2}) returned FrozenList([1, 1]).
DifferenceKeptOccurrences ==
  /\ call.op = "difference" /\ call.self = 1 /\ call.pre = <<1, 1>>
  /\ call.arg.other = PyVal("set", <<2>>)
  /\ r.items = <<1, 1>> /\ ret.id = r.id

\* The positions (from 0) of a list of length len that a slice selects: those
\* reached from its first position in steps of step before its end, the ends
\* counted from the end of the list when negative and clamped to the list.
Clamp(v, lo, hi) == IF v < lo THEN lo ELSE IF v > hi THEN hi ELSE v
FromEnd(v, len) == IF v < 0 THEN v + len ELSE v
SlicePositions(sl, len) ==
  LET step == IF sl.step = <<>> THEN 1 ELSE sl.step[1]
      first == IF step > 0
               THEN (IF sl.start = <<>> THEN 0 ELSE Clamp(FromEnd(sl.start[1], len), 0, len))
               ELSE (IF sl.start = <<>> THEN len - 1
                     ELSE Clamp(FromEnd(sl.start[1], len), -1, len - 1))
      end == IF step > 0
             THEN (IF sl.stop = <<>> THEN len ELSE Clamp(FromEnd(sl.stop[1], len), 0, len))
             ELSE (IF sl.stop = <<>> THEN -1
                   ELSE Clamp(FromEnd(sl.stop[1], len), -1, len - 1))
  IN {p \in 0..(len - 1) :
        IF step > 0 THEN p >= first /\ p < end /\ (p - first) % step = 0
        ELSE p <= first /\ p > end /\ (first - p) % (-step) = 0}
\* res holds x's items at the positions P (from 0), ascending or descending.
IsSliceOf(res, x, P, ascending) ==
  /\ Len(res) = Cardinality(P)
  /\ \A p \in P :
       res[Cardinality({q \in P : IF ascending THEN q <= p ELSE q >= p})] = x[p + 1]
\* res holds x's items n times over, in order; nothing for n <= 0.
IsRepeat(res, x, n) ==
  /\ Len(res) = (IF n <= 0 THEN 0 ELSE n * Len(x))
  /\ \A c \in 1..n : \A i \in DOMAIN x : res[(c - 1) * Len(x) + i] = x[i]

IsSliceCall == call.op = "__getitem__" /\ call.arg.other.type = "slice"
IsDerivation ==
  \/ call.op \in {"union", "difference", "__mul__", "__imul__", "__getslice__"}
  \/ IsSliceCall

\* C10: union, difference, repeat and slicing, when they return, return a
\* FrozenList that is a new object (not a plain list, not self), also when its
\* items are self's; repeat and slicing always return; a slice holds the items
\* of its range in order, repeat(n) holds self's items n times over in order
\* (none for n = 0); a mutator called on a derived FrozenList raises TypeError
\* and leaves its items.
DerivedIsNewFrozen ==
  /\ (IsDerivation /\ ret.kind # "TypeError") => (ReturnedNewFrozen /\ SelfUntouched)
  /\ (call.op \in {"__mul__", "__imul__"}) =>
       (ret.kind = "FrozenList" /\ IsRepeat(r.items, call.pre, call.arg.n))
  /\ IsSliceCall =>
       /\ ret.kind = "FrozenList"
       /\ IsSliceOf(r.items, call.pre, SlicePositions(call.arg.sl, Len(call.pre)),
                    call.arg.sl.step = <<>> \/ call.arg.sl.step[1] > 0)
  /\ call.op = "__getslice__" =>
       /\ ret.kind = "FrozenList"
       /\ IsSliceOf(r.items, call.pre,
                    {p \in 0..(Len(call.pre) - 1) : p >= call.arg.n /\ p < call.arg.j},
                    TRUE)
  /\ (call.op = "_disabled" /\ call.self # 1) =>
       (ret.kind = "TypeError" /\ SelfUntouched)

\* a = FrozenList([1, 2]); a[:] returned a FrozenList [1, 2] that is not a.
SliceCopiedSelf ==
  /\ IsSliceCall /\ call.arg.sl = NoSlice /\ call.self = 1
  /\ a = <<1, 2>> /\ r.items = a
  /\ r.cls = "FrozenList" /\ ret.id = r.id /\ ret.id # 1

\* C2: a FrozenList holds the same items in the same order after every call of
\* its public API as before it: no step changes the items of the FrozenList the
\* caller constructed, nor those of a FrozenList it still holds.
FrozenListNeverChanges ==
  [][a' = a /\ (r'.id = r.id => r'.items = r.items)]_vars

\* a = FrozenList([1]); a += [1] returned a itself, and a is [1, 1].
IAddExtendedSelf ==
  /\ call.op = "__iadd__" /\ call.self = 1 /\ call.pre = <<1>>
  /\ call.arg.other = PyVal("list", <<1>>)
  /\ ret.kind = "FrozenList" /\ ret.id = 1 /\ a = <<1, 1>>

HashOf(id) == __hash__(Items(id)).val
Equals(i, j) == __eq__(Items(i), PyVal("FrozenList", Items(j))).val = 1

\* C6: two FrozenLists that are equal have the same hash, and the hash of a
\* FrozenList is the same at every call: no step changes the hash of an object
\* the caller holds.
HashConsistentAndStable ==
  [][/\ \A i \in Live, j \in Live : Equals(i, j) => HashOf(i) = HashOf(j)
     /\ __hash__(a').val = __hash__(a).val
     /\ r'.id = r.id => __hash__(r'.items).val = __hash__(r.items).val]_vars

\* a += b returned a, and hash(a) is not what it was before the call.
IAddChangedHash ==
  /\ call.op = "__iadd__" /\ call.self = 1 /\ ret.id = 1
  /\ __hash__(a).val # __hash__(call.pre).val

\* C8: a + b and a += b emit a FutureWarning and end as a.union(b) ends: with
\* an error when union raises one, else with a FrozenList that holds the items
\* union returns.
PlusBehavesAsUnion ==
  call.op \in {"__add__", "__iadd__"} =>
    /\ "FutureWarning" \in warned
    /\ LET u == union(call.pre, call.arg.other)
       IN IF u.kind # "FrozenList" THEN ret.kind = u.kind
          ELSE /\ ret.kind = "FrozenList"
               /\ Items(ret.id) = u.items

\* a = FrozenList([1]); a += {2} returned a, now [1, 2]; a.union({2}) raises.
IAddAcceptedSet ==
  /\ call.op = "__iadd__" /\ call.self = 1 /\ call.pre = <<1>>
  /\ call.arg.other = PyVal("set", <<2>>)
  /\ ret.kind = "FrozenList" /\ ret.id = 1 /\ a = <<1, 2>>
  /\ union(call.pre, call.arg.other).kind = "TypeError"

-----------------------------------------------------------------------------
(* Properties of both frozen types *)

\* C1: a call of any disabled mutator of a FrozenList or of a FrozenNDArray
\* raises TypeError, and the step leaves every list and every array, with its
\* items, their order and its length, as it was.
MutatorsRaiseAndChangeNothing ==
  [][/\ call'.op = "_disabled" => (ret'.kind = "TypeError" /\ a' = a /\ r' = r)
     /\ acall'.op = "_disabled" =>
          (aret'.kind = "TypeError" /\ arrs' = arrs /\ bufs' = bufs)]_vars

\* a = FrozenList([1, 2]); a mutator of a was called, raised, and a is [1, 2].
MutatorRejected ==
  /\ call.op = "_disabled" /\ call.self = 1 /\ ret.kind = "TypeError"
  /\ call.pre = <<1, 2>> /\ a = <<1, 2>>

-----------------------------------------------------------------------------
(* Properties of FrozenNDArray and _ensure_frozen *)

HeapAfter == [arrs |-> arrs', bufs |-> bufs']
\* The arrays other than h that read the storage h reads.
Sharing(h) == {g \in LiveArr \ {h} : arrs[g].buf = arrs[h].buf}

\* C3, as amended: after its construction, through every __new__,
\* _shallow_copy, values, write to an array values() returned and rejected
\* mutator call, a FrozenNDArray stays the object it is and reads the same
\* elements, as does every FrozenNDArray on its storage, because the arrays
\* these operations return are FrozenNDArrays or, for values(), arrays that
\* share storage with no other array.
FrozenStorageNeverChanges ==
  [][/\ \A h \in Frozen :
          arrs'[h] = arrs[h] /\ Contents(HeapAfter, h) = Contents(Heap, h)
     /\ \A h \in {"m", "m2"} : Sharing(h) = {}
     /\ \A h \in {"f", "w"} : arrs[h].cls \in {"none", "FrozenNDArray"}]_vars

\* C3, as stated: a FrozenNDArray and every view on its storage read the same
\* elements at every step, because no array on that storage can write to it:
\* every array that shares the storage of a FrozenNDArray is a FrozenNDArray.
FrozenStorageHasNoWriter ==
  [][/\ \A h \in Frozen :
          arrs'[h] = arrs[h] /\ Contents(HeapAfter, h) = Contents(Heap, h)
     /\ \A h \in Frozen : \A g \in Sharing(h) : arrs[g].cls = "FrozenNDArray"]_vars

\* f and w share the storage of src, and a write to an array f.values()
\* returned changed that array.
WroteBesideSharedStorage ==
  /\ arrs["f"].cls = "FrozenNDArray" /\ arrs["w"].cls = "FrozenNDArray"
  /\ arrs["f"].buf = "src" /\ arrs["w"].buf = "src"
  /\ acall.op = "ndarray.__setitem__" /\ acall.self = "m"
  /\ Contents(Heap, "m") # acall.pre
  /\ Contents(Heap, "f") = acall.pre

\* values() returned a new ordinary ndarray of self's dtype, on storage no
\* array had, and changed no array there was.
ValuesReturnedFresh ==
  LET self == acall'.self
      v == aret'.h
  IN /\ aret'.kind = "ndarray" /\ arrs'[v].cls = "ndarray"
     /\ arrs[v].cls = "none"
     /\ arrs'[v].dtype = arrs[self].dtype
     /\ \A g \in LiveArr : arrs'[g].buf # arrs'[v].buf
     /\ \A g \in LiveArr :
          arrs'[g] = arrs[g] /\ Contents(HeapAfter, g) = Contents(Heap, g)
\* A write to an array values() returned changed what no other array reads.
WriteChangedNoOther ==
  \A g \in LiveArr \ {acall'.self} :
    arrs'[g] = arrs[g] /\ Contents(HeapAfter, g) = Contents(Heap, g)
\* x is what the integer y becomes in dtype dt: y itself when dt holds it, else
\* the integer dt holds that differs from y by a multiple of 2^bits.
IsConverted(dt, x, y) ==
  IF dt = "int64" THEN x = y
  ELSE /\ x >= -(2 ^ (Bits(dt) - 1)) /\ x <= 2 ^ (Bits(dt) - 1) - 1
       /\ (x - y) % (2 ^ Bits(dt)) = 0

\* C7, as amended: values() of a FrozenNDArray returns an ordinary ndarray of
\* the same dtype, on storage no array had, that reads what the FrozenNDArray
\* reads: the data it was built from, converted to its dtype, so the data
\* itself when the dtype holds every item of it; a write to an array values()
\* returned changes what no other array reads.
ValuesIsFreshCopy ==
  [][/\ acall'.op = "values" =>
          LET self == acall'.self
              got == Contents(HeapAfter, aret'.h)
          IN /\ ValuesReturnedFresh
             /\ got = Contents(Heap, self)
             /\ Len(got) = Len(arrs[self].data)
             /\ \A i \in DOMAIN got :
                  IsConverted(arrs[self].dtype, got[i], arrs[self].data[i])
             /\ (\A i \in DOMAIN arrs[self].data :
                    Representable(arrs[self].dtype, arrs[self].data[i]))
                  => got = arrs[self].data
     /\ acall'.op = "ndarray.__setitem__" => WriteChangedNoOther]_vars

\* C7, as stated: values() of every FrozenNDArray returns an ordinary ndarray
\* of the same dtype, on storage no array had, elementwise equal to the data
\* the FrozenNDArray was built from; a write to an array values() returned
\* changes what no other array reads.
ValuesEqualsData ==
  [][/\ acall'.op = "values" =>
          /\ ValuesReturnedFresh
          /\ Contents(HeapAfter, aret'.h) = arrs[acall'.self].data
     /\ acall'.op = "ndarray.__setitem__" => WriteChangedNoOther]_vars

\* f was built from [1, 300]; f.values() returned m and m2; a write changed m,
\* and f and m2 still read [1, 300].
WroteOneOfTwoCopies ==
  /\ arrs["f"].cls = "FrozenNDArray" /\ arrs["f"].data = <<1, 300>>
  /\ arrs["m"].cls = "ndarray" /\ arrs["m2"].cls = "ndarray"
  /\ acall.op = "ndarray.__setitem__" /\ acall.self = "m"
  /\ Contents(Heap, "m") # <<1, 300>>
  /\ Contents(Heap, "f") = <<1, 300>> /\ Contents(Heap, "m2") = <<1, 300>>

====
